---- MODULE Spec2Model ----
(***************************************************************************)
(* Model of import_chart_of_accounts.py: the chart-of-accounts importer.   *)
(*                                                                         *)
(* The accounts table is a set of rows.  `committed` is what the database  *)
(* holds durably, `tx` is what the importer's open transaction sees.  A    *)
(* run of import_accounts is a sequence of database statements; every      *)
(* statement is one step, and every statement may raise psycopg2.Error,    *)
(* which the handler of lines 171-175 answers with a rollback and exit 1.  *)
(*                                                                         *)
(* Strings are sequences of one-character strings, so that str.strip and   *)
(* code[0] are computed and not assumed.  The columns that the importer    *)
(* only copies through (account type, VAT applicability, VAT direction)    *)
(* take no part in any lookup or branch and are left out of the rows.      *)
(***************************************************************************)
EXTENDS Integers, Sequences, FiniteSets

VARIABLES
    committed,      \* the accounts table as committed in the database
    tx,             \* the accounts table as seen by the open transaction
    pc,             \* position of the run
    company_id,     \* argument of import_accounts
    file,           \* all_accounts: the rows read from the CSV file
    parent_map,     \* parent_map: synthetic code -> account id
    i,              \* index of the next row of the current pass
    next_id,        \* the id sequence of the accounts table
    exit_status,    \* exit status of the process of the last run
    runs,           \* number of runs started
    before,         \* history: `committed` when the current run started
    rerun,          \* history: this run repeats the previous, successful run
    fresh,          \* history: file positions whose code was absent when processed
    failed_at,      \* history: the step at which the run failed
    arg_code,       \* get_account_class: the argument
    class_result    \* get_account_class: the value returned

vars == <<committed, tx, pc, company_id, file, parent_map, i, next_id,
          exit_status, runs, before, rerun, fresh, failed_at,
          arg_code, class_result>>

-----------------------------------------------------------------------------
(* Bounds *)

MaxRows == 2
MaxRuns == 2
MaxCodeLen == 3

-----------------------------------------------------------------------------
(* Strings *)

Whitespace == {" "}
Digits == {"0", "1", "2", "3", "4", "5", "6", "7", "8", "9"}
\* U+00B2, SUPERSCRIPT TWO: str.isdigit() is true of it and int() rejects it
Sup2 == "sup2"
UnicodeDigits == {Sup2}

RECURSIVE LStrip(_)
LStrip(s) ==
    IF s = <<>> THEN s
    ELSE IF Head(s) \in Whitespace THEN LStrip(Tail(s)) ELSE s

RECURSIVE RStrip(_)
RStrip(s) ==
    IF s = <<>> THEN s
    ELSE IF s[Len(s)] \in Whitespace THEN RStrip(SubSeq(s, 1, Len(s) - 1)) ELSE s

Strip(s) == RStrip(LStrip(s))

IsDigit(c) == c \in Digits \cup UnicodeDigits

DigitValue(c) ==
    CASE c = "0" -> 0 [] c = "1" -> 1 [] c = "2" -> 2 [] c = "3" -> 3
      [] c = "4" -> 4 [] c = "5" -> 5 [] c = "6" -> 6 [] c = "7" -> 7
      [] c = "8" -> 8 [] c = "9" -> 9

\* the outcome of a call that raised ValueError
ValueError == -1

get_account_class(code) ==
    IF code = <<>> THEN 1
    ELSE IF IsDigit(code[1])
         THEN IF code[1] \in Digits THEN DigitValue(code[1]) ELSE ValueError
         ELSE 1

-----------------------------------------------------------------------------
(* The accounts table *)

NULL == 0

C101 == <<"1", "0", "1">>
C201 == <<"2", "0", "1">>
C301 == <<"3", "0", "1">>
C41 == <<"4", "1">>

SeedCodes == {C101, C201, C301}

Account(id, code, name, parent, level, analytical, cid) ==
    [id |-> id, code |-> code, name |-> name,
     account_class |-> get_account_class(code),
     parent_id |-> parent, level |-> level,
     is_active |-> TRUE, is_analytical |-> analytical, company_id |-> cid]

\* a purge whose WHERE clause lost the company filter
PurgeIgnoringCompany(t, cid) ==
    {a \in t : a.code \in SeedCodes}

\* a purge whose WHERE clause lost the seed exemption
PurgeWithoutSeeds(t, cid) ==
    {a \in t : a.company_id # cid}

\* DELETE FROM accounts WHERE company_id = %s AND code NOT IN ('101','201','301')
PurgeResult(t, cid) ==
    {a \in t : ~(a.company_id = cid /\ a.code \notin SeedCodes)}

\* an existence check that never finds a row
ExistingNone(t, code, cid) ==
    {a \in t : FALSE}

\* an existence check that looks among the synthetic accounts only
ExistingSyntheticOnly(t, code, cid) ==
    {a \in t : a.code = code /\ a.company_id = cid /\ ~a.is_analytical}

\* SELECT id FROM accounts WHERE code = %s AND company_id = %s
Existing(t, code, cid) ==
    {a \in t : a.code = code /\ a.company_id = cid}

\* a first INSERT that writes is_analytical true, as the second does
SyntheticAccountAsAnalytical(id, code, name, cid) ==
    Account(id, code, name, NULL, 1, TRUE, cid)

\* the row of the first INSERT: parent_id NULL, level 1, is_analytical false
SyntheticAccount(id, code, name, cid) ==
    Account(id, code, name, NULL, 1, FALSE, cid)

\* a parent lookup that forgets to strip the column
ResolveParentUnstripped(raw, pm) ==
    IF raw # <<>> /\ raw \in DOMAIN pm THEN pm[raw] ELSE NULL

\* parent_code (line 122) and parent_id (line 129): a column that is empty, or
\* empty once stripped, is falsy and gives None; otherwise parent_map.get
ResolveParent(raw, pm) ==
    IF raw # <<>> /\ Strip(raw) # <<>> /\ Strip(raw) \in DOMAIN pm
    THEN pm[Strip(raw)]
    ELSE NULL

\* level = 2 if parent_id else 1: None and 0 are both falsy
LevelOf(parent) == IF parent # NULL /\ parent # 0 THEN 2 ELSE 1

\* a second INSERT that writes level 2 for every analytical account
AnalyticalAccountLevel2(id, code, name, parent, cid) ==
    Account(id, code, name, parent, 2, TRUE, cid)

\* the row of the second INSERT: is_analytical true
AnalyticalAccount(id, code, name, parent, cid) ==
    Account(id, code, name, parent, LevelOf(parent), TRUE, cid)

Put(pm, code, id) ==
    [c \in DOMAIN pm \cup {code} |-> IF c = code THEN id ELSE pm[c]]

EmptyMap == [c \in {} |-> NULL]

-----------------------------------------------------------------------------
(* The input file *)

SYNTHETIC == "SYNTHETIC"       \* the value of column 'Тип сметка' of a synthetic row
ANALYTICAL == "ANALYTICAL"     \* the value of column 'Тип сметка' of an analytical row
OTHERTYPE == "OTHER"           \* any other value of the column

RawCodes == {C101, C41, <<" ", "4", "1">>, <<>>}
Names == {<<"N">>}
Companies == {1, 2}

Rows ==
    [type : {SYNTHETIC}, code : RawCodes, parent : {<<>>}, name : Names]
    \cup [type : {ANALYTICAL}, code : RawCodes, parent : RawCodes, name : Names]
    \cup [type : {OTHERTYPE}, code : {C41}, parent : {<<>>}, name : Names]

Files == UNION {[1..n -> Rows] : n \in 0..MaxRows}

\* the file positions of the rows of one type, in file order
PositionsOf(f, type) == {k \in 1..Len(f) : f[k].type = type}

\* position in the file of the n-th row of the type: the list comprehensions of
\* lines 74 and 117 keep the file order
NthOf(f, type, n) ==
    CHOOSE k \in PositionsOf(f, type) :
        Cardinality({j \in PositionsOf(f, type) : j < k}) = n - 1

CountOf(f, type) == Cardinality(PositionsOf(f, type))

\* where the run goes after the synthetic pass, and after the file is read
AfterSynthetic(f) == IF CountOf(f, ANALYTICAL) > 0 THEN "analytical" ELSE "commit"
AfterOpen(f) == IF CountOf(f, SYNTHETIC) > 0 THEN "synthetic" ELSE AfterSynthetic(f)

-----------------------------------------------------------------------------
(* The state before the first run: accounts the importer itself leaves behind *)

Base41 == Account(1, C41, <<"S">>, NULL, 1, FALSE, 1)
Base101 == Account(2, C101, <<"S">>, 1, 2, TRUE, 1)
Other41 == Account(3, C41, <<"S">>, NULL, 1, FALSE, 2)

BaseAccounts == {Base41, Base101, Other41}

InitTables ==
    {t \in SUBSET BaseAccounts :
        \A a \in t : a.parent_id # NULL => \E p \in t : p.id = a.parent_id}

Init ==
    /\ committed \in InitTables
    /\ tx = committed
    /\ pc = "idle"
    /\ company_id = 1
    /\ file = <<>>
    /\ parent_map = EmptyMap
    /\ i = 1
    /\ next_id = Cardinality(BaseAccounts) + 1
    /\ exit_status = 0
    /\ runs = 0
    /\ before = committed
    /\ rerun = FALSE
    /\ fresh = {}
    /\ failed_at = "none"
    /\ arg_code = <<>>
    /\ class_result = <<>>

-----------------------------------------------------------------------------
(* import_accounts *)

classVars == <<arg_code, class_result>>

\* import_accounts(csv_file_path, company_id) is called, in a new process.
\* rerun records that the call repeats the previous call, which succeeded:
\* the same company and, in Open, the same file contents.
StartRun ==
    /\ pc \in {"idle", "done", "failed"}
    /\ runs < MaxRuns
    /\ runs' = runs + 1
    /\ \E cid \in Companies, again \in BOOLEAN :
          /\ again => (pc = "done" /\ cid = company_id)
          /\ company_id' = cid
          /\ rerun' = again
          /\ file' = IF again THEN file ELSE <<>>
    /\ pc' = "connect"
    /\ before' = committed
    /\ tx' = committed
    /\ parent_map' = EmptyMap
    /\ fresh' = {}
    /\ i' = 1
    /\ failed_at' = "none"
    /\ UNCHANGED <<committed, next_id, exit_status, classVars>>

\* psycopg2.connect and conn.cursor
Connect ==
    /\ pc = "connect"
    /\ pc' = "purge"
    /\ UNCHANGED <<committed, tx, company_id, file, parent_map, i, next_id,
                   exit_status, runs, before, rerun, fresh, failed_at, classVars>>

\* the DELETE of lines 56-60
Purge ==
    /\ pc = "purge"
    /\ tx' = PurgeResult(tx, company_id)
    /\ pc' = "open"
    /\ UNCHANGED <<committed, company_id, file, parent_map, i, next_id,
                   exit_status, runs, before, rerun, fresh, failed_at, classVars>>

\* open, csv.DictReader and list(reader): the whole file is read
Open ==
    /\ pc = "open"
    /\ \E f \in Files :
          /\ rerun => f = file
          /\ file' = f
          /\ pc' = AfterOpen(f)
    /\ UNCHANGED <<committed, tx, company_id, parent_map, i, next_id,
                   exit_status, runs, before, rerun, fresh, failed_at, classVars>>

\* open raises (an Exception that is no psycopg2.Error): lines 176-178 exit
\* with status 1 and call no rollback; the connection ends with the process
\* and the server discards its open transaction
OpenFails ==
    /\ pc = "open"
    /\ pc' = "failed"
    /\ failed_at' = "open"
    /\ exit_status' = 1
    /\ tx' = committed
    /\ file' = <<>>
    /\ UNCHANGED <<committed, company_id, parent_map, i, next_id, runs,
                   before, rerun, fresh, classVars>>

\* one iteration of the loop of lines 76-113
SyntheticStep ==
    /\ pc = "synthetic"
    /\ LET k == NthOf(file, SYNTHETIC, i)
           code == Strip(file[k].code)
           name == Strip(file[k].name)
           existing == Existing(tx, code, company_id)
       IN  IF existing # {}
           THEN /\ \E a \in existing : parent_map' = Put(parent_map, code, a.id)
                /\ UNCHANGED <<tx, next_id, fresh>>
           ELSE /\ tx' = tx \cup {SyntheticAccount(next_id, code, name, company_id)}
                /\ parent_map' = Put(parent_map, code, next_id)
                /\ next_id' = next_id + 1
                /\ fresh' = fresh \cup {k}
    /\ IF i < CountOf(file, SYNTHETIC)
       THEN i' = i + 1 /\ pc' = pc
       ELSE i' = 1 /\ pc' = AfterSynthetic(file)
    /\ UNCHANGED <<committed, company_id, file, exit_status, runs, before,
                   rerun, failed_at, classVars>>

\* one iteration of the loop of lines 119-157
AnalyticalStep ==
    /\ pc = "analytical"
    /\ LET k == NthOf(file, ANALYTICAL, i)
           code == Strip(file[k].code)
           name == Strip(file[k].name)
           parent_id == ResolveParent(file[k].parent, parent_map)
       IN  IF Existing(tx, code, company_id) # {}
           THEN UNCHANGED <<tx, next_id, fresh>>
           ELSE /\ tx' = tx \cup {AnalyticalAccount(next_id, code, name, parent_id, company_id)}
                /\ next_id' = next_id + 1
                /\ fresh' = fresh \cup {k}
    /\ IF i < CountOf(file, ANALYTICAL)
       THEN i' = i + 1 /\ pc' = pc
       ELSE i' = 1 /\ pc' = "commit"
    /\ UNCHANGED <<committed, company_id, file, parent_map, exit_status, runs,
                   before, rerun, failed_at, classVars>>

\* conn.commit()
Commit ==
    /\ pc = "commit"
    /\ committed' = tx
    /\ pc' = "count"
    /\ UNCHANGED <<tx, company_id, file, parent_map, i, next_id, exit_status,
                   runs, before, rerun, fresh, failed_at, classVars>>

\* SELECT COUNT(*), the report, close: the run ends with status 0
Count ==
    /\ pc = "count"
    /\ pc' = "done"
    /\ exit_status' = 0
    /\ UNCHANGED <<committed, tx, company_id, file, parent_map, i, next_id,
                   runs, before, rerun, fresh, failed_at, classVars>>

DatabaseSteps == {"connect", "purge", "synthetic", "analytical", "commit", "count"}

\* a database call raises psycopg2.Error: lines 171-175 roll back and exit 1.
\* The rollback discards what the transaction has not committed; the id
\* sequence is not transactional and keeps its value.  The process ends and
\* its memory (all_accounts, parent_map, the loop position) goes with it.
DatabaseError ==
    /\ pc \in DatabaseSteps
    /\ pc' = "failed"
    /\ failed_at' = pc
    /\ exit_status' = 1
    /\ tx' = committed
    /\ file' = <<>>
    /\ parent_map' = EmptyMap
    /\ i' = 1
    /\ fresh' = {}
    /\ UNCHANGED <<committed, company_id, next_id, runs, before, rerun, classVars>>

Next ==
    \/ StartRun
    \/ Connect
    \/ Purge
    \/ Open
    \/ OpenFails
    \/ SyntheticStep
    \/ AnalyticalStep
    \/ Commit
    \/ Count
    \/ DatabaseError

Spec == Init /\ [][Next]_vars

-----------------------------------------------------------------------------
(* get_account_class on its own *)

ClassChars == {"0", "4", "9", "A", " ", Sup2}

CodeStrings == UNION {[1..n -> ClassChars] : n \in 0..MaxCodeLen}

InitClass ==
    /\ committed = {}
    /\ tx = {}
    /\ pc = "idle"
    /\ company_id = 1
    /\ file = <<>>
    /\ parent_map = EmptyMap
    /\ i = 1
    /\ next_id = 1
    /\ exit_status = 0
    /\ runs = 0
    /\ before = {}
    /\ rerun = FALSE
    /\ fresh = {}
    /\ failed_at = "none"
    /\ arg_code \in CodeStrings
    /\ class_result = <<>>

CallGetAccountClass ==
    /\ class_result = <<>>
    /\ class_result' = <<get_account_class(arg_code)>>
    /\ UNCHANGED <<committed, tx, pc, company_id, file, parent_map, i, next_id,
                   exit_status, runs, before, rerun, fresh, failed_at, arg_code>>

ClassSpec == InitClass /\ [][CallGetAccountClass]_vars

-----------------------------------------------------------------------------
(* Vocabulary of the properties *)

AccountsOf(t, cid) == {a \in t : a.company_id = cid}
CodesOf(t, cid) == {a.code : a \in AccountsOf(t, cid)}
OthersOf(t, cid) == {a \in t : a.company_id # cid}

UniqueCodes(t, cid) ==
    \A a, b \in AccountsOf(t, cid) : a.code = b.code => a = b

SyntheticCodes(f) == {Strip(f[k].code) : k \in PositionsOf(f, SYNTHETIC)}
FileCodes(f) ==
    {Strip(f[k].code) : k \in PositionsOf(f, SYNTHETIC) \cup PositionsOf(f, ANALYTICAL)}

\* the analytical row at position k declares a parent code, and it is the code
\* of a synthetic row of the file
ParentMatches(f, k) ==
    Strip(f[k].parent) # <<>> /\ Strip(f[k].parent) \in SyntheticCodes(f)

\* every account with the code of row k has level 2 and the account of the
\* declared parent code as its parent
LinkedToParent(t, f, k, cid) ==
    /\ Existing(t, Strip(f[k].code), cid) # {}
    /\ \A a \in Existing(t, Strip(f[k].code), cid) :
          /\ a.level = 2
          /\ \E p \in Existing(t, Strip(f[k].parent), cid) : a.parent_id = p.id

\* every account with the code of row k is a root: no parent, level 1
IsRoot(t, f, k, cid) ==
    /\ Existing(t, Strip(f[k].code), cid) # {}
    /\ \A a \in Existing(t, Strip(f[k].code), cid) :
          a.parent_id = NULL /\ a.level = 1

-----------------------------------------------------------------------------
(* C1 *)

\* C1 (as claimed): a run that fails with a database error at any database
\* step, the final COUNT included, ends with exit status 1 and leaves the
\* committed table as it was before the run.
C1_Atomicity ==
    (pc = "failed" /\ failed_at \in DatabaseSteps)
        => (exit_status = 1 /\ committed = before)

-----------------------------------------------------------------------------
(* C2 *)

\* C2 (as claimed): after a successful run, every analytical row whose declared
\* parent code (not empty once stripped) is the code of a synthetic row of the
\* file has its account linked to the account of that code, with level 2.
C2_ParentResolutionAll ==
    pc = "done" =>
        \A k \in PositionsOf(file, ANALYTICAL) :
            ParentMatches(file, k) => LinkedToParent(committed, file, k, company_id)

\* C2 (amended): the same for the analytical rows whose code was not already
\* present for the company when the row was processed.
C2_ParentResolution ==
    pc = "done" =>
        \A k \in fresh \cap PositionsOf(file, ANALYTICAL) :
            ParentMatches(file, k) => LinkedToParent(committed, file, k, company_id)

\* C2 witness: a successful run inserted an analytical row under a parent that
\* the file declares with surrounding whitespace
C2_Witness ==
    /\ pc = "done"
    /\ \E k \in fresh \cap PositionsOf(file, ANALYTICAL) :
          /\ ParentMatches(file, k)
          /\ Strip(file[k].parent) # file[k].parent
          /\ LinkedToParent(committed, file, k, company_id)

-----------------------------------------------------------------------------
(* C3 *)

\* C3 (as claimed): after a successful run, every analytical row whose declared
\* parent code is absent or is no synthetic code of the file has an account
\* with parent_id null and level 1.
C3_UnresolvedParentAll ==
    pc = "done" =>
        \A k \in PositionsOf(file, ANALYTICAL) :
            (Strip(file[k].parent) = <<>> \/ ~ParentMatches(file, k))
                => IsRoot(committed, file, k, company_id)

\* C3 (amended): the same for the analytical rows whose code was not already
\* present for the company when the row was processed.
C3_UnresolvedParent ==
    pc = "done" =>
        \A k \in fresh \cap PositionsOf(file, ANALYTICAL) :
            (Strip(file[k].parent) = <<>> \/ ~ParentMatches(file, k))
                => IsRoot(committed, file, k, company_id)

\* C3 witness: a successful run inserted an analytical row that declares a
\* parent code no synthetic row of the file has
C3_Witness ==
    /\ pc = "done"
    /\ \E k \in fresh \cap PositionsOf(file, ANALYTICAL) :
          /\ Strip(file[k].parent) # <<>>
          /\ ~ParentMatches(file, k)
          /\ IsRoot(committed, file, k, company_id)

-----------------------------------------------------------------------------
(* C4 *)

\* C4: after a successful run, every synthetic row whose code was not present
\* for the company when the row was processed has an account with
\* is_analytical false, parent_id null and level 1.
C4_SyntheticInsertion ==
    pc = "done" =>
        \A k \in fresh \cap PositionsOf(file, SYNTHETIC) :
            \E a \in Existing(committed, Strip(file[k].code), company_id) :
                ~a.is_analytical /\ a.parent_id = NULL /\ a.level = 1

\* C4 witness: a successful run inserted a synthetic row after the purge had
\* removed the account that held its code before the run
C4_Witness ==
    /\ pc = "done"
    /\ \E k \in fresh \cap PositionsOf(file, SYNTHETIC) :
          Existing(before, Strip(file[k].code), company_id) # {}

-----------------------------------------------------------------------------
(* C5 *)

\* C5: if no two accounts of the company share a code before the run, none do
\* in any state of the run, in the transaction or in what is committed.
C5_CodeUniqueness ==
    UniqueCodes(before, company_id)
        => (UniqueCodes(tx, company_id) /\ UniqueCodes(committed, company_id))

\* C5 witness: a successful run over a file that repeats a code, across the two
\* kinds of row, and inserted one of the two rows
C5_Witness ==
    /\ pc = "done"
    /\ fresh # {}
    /\ \E j \in PositionsOf(file, SYNTHETIC), k \in PositionsOf(file, ANALYTICAL) :
          Strip(file[j].code) = Strip(file[k].code)

-----------------------------------------------------------------------------
(* C6 *)

\* C6: the purge removes exactly the accounts of the company whose code is no
\* seed code, and no step changes an account of another company, in the
\* transaction or in what is committed.
C6_PurgeFrame ==
    [][/\ (pc = "purge" /\ pc' = "open") =>
              /\ tx' \subseteq tx
              /\ tx \ tx' = {a \in AccountsOf(tx, company_id) :
                                a.code # C101 /\ a.code # C201 /\ a.code # C301}
       /\ OthersOf(tx', company_id') = OthersOf(tx, company_id')
       /\ OthersOf(committed', company_id') = OthersOf(committed, company_id')]_vars

\* C6 witness: the purge has removed an account of the company, kept a seed
\* account of the company and met an account of another company
C6_Witness ==
    /\ pc = "open"
    /\ tx # before
    /\ \E a \in AccountsOf(tx, company_id) : a.code \in SeedCodes
    /\ OthersOf(tx, company_id) # {}

-----------------------------------------------------------------------------
(* C7 *)

\* C7 (as claimed): after a successful run, every account the company had
\* before the run whose code appears in a row of the file is still there,
\* unchanged.
C7_PreexistingUntouchedAll ==
    pc = "done" =>
        \A a \in AccountsOf(before, company_id) :
            a.code \in FileCodes(file) => a \in committed

\* C7 (amended): after a successful run, every account the company had before
\* the run with a seed code that appears in a row of the file is still there,
\* unchanged, is the only account with that code, and no row with that code
\* was inserted.
C7_SeedUntouched ==
    pc = "done" =>
        \A a \in AccountsOf(before, company_id) :
            (a.code \in SeedCodes /\ a.code \in FileCodes(file)) =>
                /\ Existing(committed, a.code, company_id) = {a}
                /\ \A k \in fresh : Strip(file[k].code) # a.code

\* C7 witness: a successful run over a file with a synthetic row for the code
\* of an analytical seed account the company had before the run
C7_Witness ==
    /\ pc = "done"
    /\ \E a \in AccountsOf(before, company_id) :
          /\ a.code \in SeedCodes
          /\ a.is_analytical
          /\ a.code \in SyntheticCodes(file)
          /\ a \in committed

-----------------------------------------------------------------------------
(* C8 *)

\* C8: a successful run that repeats the previous successful run (same file,
\* same company) leaves the company with the same set of codes and the same
\* number of accounts as the previous run left.
C8_RerunIdempotent ==
    (pc = "done" /\ rerun) =>
        /\ CodesOf(committed, company_id) = CodesOf(before, company_id)
        /\ Cardinality(AccountsOf(committed, company_id))
              = Cardinality(AccountsOf(before, company_id))

\* C8 witness: the second of two such runs has kept a seed account and
\* inserted again an account that its purge had removed
C8_Witness ==
    /\ pc = "done"
    /\ rerun
    /\ fresh # {}
    /\ \E a \in AccountsOf(before, company_id) : a \in committed
    /\ \E a \in AccountsOf(before, company_id) : a \notin committed

-----------------------------------------------------------------------------
(* C9 *)

\* C9 (as claimed): get_account_class returns an integer in 1..9, the leading
\* digit of the code, and 1 when the code is empty or does not start with a
\* digit.
C9_AccountClass ==
    class_result # <<>> =>
        /\ class_result[1] \in 1..9
        /\ (arg_code = <<>> \/ ~IsDigit(arg_code[1])) => class_result[1] = 1

-----------------------------------------------------------------------------
(* C10 *)

\* C10 (as claimed): after a successful run, every account of the company with
\* a parent_id refers to an account that exists, belongs to the company and is
\* synthetic.
C10_ParentIntegrity ==
    pc = "done" =>
        \A a \in AccountsOf(committed, company_id) :
            a.parent_id # NULL =>
                \E p \in AccountsOf(committed, company_id) :
                    p.id = a.parent_id /\ ~p.is_analytical

====
